---- MODULE Spec2Model ----
(***************************************************************************)
(* git-bug: the RepoCache of package cache (lock file, excerpt index,      *)
(* lazily loaded bugs, merge of a remote) together with the operations     *)
(* package (Create / AddComment) and the pull command.                     *)
(*                                                                         *)
(* A repository is shared by the processes of Procs.  Each process runs    *)
(* NewRepoCache as the sequence of file-system steps its code performs, so *)
(* that two processes interleave exactly where the code lets them.  The    *)
(* goroutine of MergeAll advances one result at a time and blocks on its   *)
(* unbuffered channel until the consumer receives.  What an operation      *)
(* returns is an operator over the state (lockVerdict, resolveBug,         *)
(* resolveBugPrefix, queryBugs); its action applies the state change.      *)
(*                                                                         *)
(* Spec is the repository shared by the processes of Procs, with no        *)
(* failing file write.  SpecOwner is the repository used by one process at *)
(* a time, which also comments on the bugs it made.  SpecFaults is         *)
(* SpecOwner on a file system and a store whose calls may return errors.   *)
(***************************************************************************)
EXTENDS Integers, Sequences, FiniteSets, TLC

VARIABLES
    pc,         \* pc[p]: where p stands in NewRepoCache / the life of its cache
    lockFile,   \* the lock file .git/git-bug/lock
    fdLinked,   \* fdLinked[p]: the file p created in lock() is still the lock path
    sawStale,   \* sawStale[p]: repoIsAvailable of p's current call found a stale lock
    rebuilt,    \* rebuilt[p]: p's NewRepoCache ran buildAllExcerpt
    localLog,   \* the local store: bug id -> durable operation log
    indexFile,  \* the persisted excerpt file
    excerpts,   \* excerpts[p]: RepoCache.excerpts of p's cache
    bugs,       \* bugs[p]: RepoCache.bugs of p's cache (id -> loaded operation log)
    mPc,        \* mPc[p]: where the goroutine of p's MergeAll stands
    mTodo,      \* mTodo[p]: remote bugs the underlying merge has not reached yet
    mPending,   \* mPending[p]: the result the goroutine is blocked sending on out
    mWrites,    \* mWrites[p]: writeExcerpts calls made by the goroutine
    mDrained    \* mDrained[p]: a MergeAll of p's cache was drained to the close of out

vars == <<pc, lockFile, fdLinked, sawStale, rebuilt, localLog, indexFile, excerpts,
          bugs, mPc, mTodo, mPending, mWrites, mDrained>>

lockVars == <<lockFile, fdLinked>>
cacheVars == <<excerpts, bugs, rebuilt>>
mergeVars == <<mPc, mTodo, mPending, mWrites, mDrained>>

-----------------------------------------------------------------------------
(* Bounds *)

\* time.Now().Unix() when a bug is created locally
Now == 4

\* the longest log a local comment is appended to grows to
MaxOps == 3

\* the processes that use the repository; StalePid is a process that has exited
Procs == {"p1", "p2"}
StalePid == "p0"

\* the processes that go on to use the cache they opened; the others only open
\* and close it
Workers == {"p1"}

-----------------------------------------------------------------------------
(* Bug identities, operations, snapshots and excerpts *)

\* identities are strings over the letters below; two share the prefix "a",
\* two the prefix "b"
Ids == {<<"a", "a">>, <<"a", "b">>, <<"b", "a">>, <<"b", "b">>}

\* the identities a caller may pass to ResolveBug
ResolveIds == {<<"a", "a">>, <<"a", "b">>, <<"b", "b">>}

\* the prefixes a caller may pass to ResolveBugPrefix
Prefixes == {<<>>, <<"a">>, <<"c">>, <<"a", "a">>, <<"a", "b">>, <<"b", "b">>,
             <<"a", "a", "a">>}

\* strings.HasPrefix(id, prefix)
HasPrefix(id, prefix) ==
    /\ Len(prefix) <= Len(id)
    /\ \A i \in 1..Len(prefix) : id[i] = prefix[i]

\* time.Unix(sec, 0), the conversion behind OpBase.Time()
UnixToTime(sec) == [wall |-> sec]

\* operations.NewCreateOp
NewCreateOp(author, title, message, files, now) ==
    [kind |-> "Create", Author |-> author, UnixTime |-> now, Title |-> title,
     Message |-> message, Files |-> files]

\* operations.NewAddCommentOp
NewAddCommentOp(author, message, files, now) ==
    [kind |-> "AddComment", Author |-> author, UnixTime |-> now,
     Message |-> message, Files |-> files]

\* the zero bug.Snapshot
EmptySnapshot ==
    [Title |-> "", Author |-> "", CreatedAt |-> UnixToTime(0), Comments |-> <<>>]

\* CreateOperation.Apply taking the title from the message
CreateApplyMessage(op, snapshot) ==
    [snapshot EXCEPT
        !.Title = op.Message,
        !.Comments = << [Message |-> op.Message, Author |-> op.Author,
                         Files |-> <<>>, UnixTime |-> op.UnixTime] >>,
        !.Author = op.Author,
        !.CreatedAt = UnixToTime(op.UnixTime)]

\* CreateOperation.Apply: the comment it builds carries no Files
CreateApply(op, snapshot) ==
    [snapshot EXCEPT
        !.Title = op.Title,
        !.Comments = << [Message |-> op.Message, Author |-> op.Author,
                         Files |-> <<>>, UnixTime |-> op.UnixTime] >>,
        !.Author = op.Author,
        !.CreatedAt = UnixToTime(op.UnixTime)]

\* AddCommentOperation.Apply putting the comment in front of the others
AddCommentPrepend(op, snapshot) ==
    [snapshot EXCEPT
        !.Comments = << [Message |-> op.Message, Author |-> op.Author,
                         Files |-> op.Files, UnixTime |-> op.UnixTime] >> \o @]

\* AddCommentOperation.Apply
AddCommentApply(op, snapshot) ==
    [snapshot EXCEPT
        !.Comments = Append(@, [Message |-> op.Message, Author |-> op.Author,
                                Files |-> op.Files, UnixTime |-> op.UnixTime])]

\* Operation.Apply, dispatched on the variant
Apply(op, snapshot) ==
    IF op.kind = "Create" THEN CreateApply(op, snapshot)
                          ELSE AddCommentApply(op, snapshot)

\* Bug.Compile: the fold of Apply over the log, left to right
RECURSIVE CompileFrom(_, _)
CompileFrom(ops, snapshot) ==
    IF ops = <<>> THEN snapshot
    ELSE CompileFrom(Tail(ops), Apply(Head(ops), snapshot))

Compile(ops) == CompileFrom(ops, EmptySnapshot)

\* cache.NewBugExcerpt(b, snap): identity, title, author, creation and last edit
NewBugExcerpt(id, ops, snap) ==
    [Id |-> id, Title |-> snap.Title, Author |-> snap.Author,
     CreatedAt |-> snap.CreatedAt, EditUnixTime |-> ops[Len(ops)].UnixTime]

\* the excerpt of a bug whose log is ops
ExcerptOf(id, ops) == NewBugExcerpt(id, ops, Compile(ops))

-----------------------------------------------------------------------------
(* The repository at the start, and the remote *)

Files == <<>>

EmptyMap == [i \in {} |-> <<>>]

\* m[k] = v, as a Go map assignment
Put(m, k, v) == [i \in DOMAIN m \cup {k} |-> IF i = k THEN v ELSE m[i]]

TitleOf(id) ==
    CASE id = <<"a", "a">> -> "bug aa"
      [] id = <<"a", "b">> -> "bug ab"
      [] id = <<"b", "a">> -> "bug ba"
      [] OTHER -> "bug bb"

Cr(id) == NewCreateOp("alice", TitleOf(id), "first", Files, 1)
Cm(msg, now) == NewAddCommentOp("bob", msg, Files, now)

\* refs/bugs/*: bug aa and bug ba exist locally
InitLocal ==
    [id \in {<<"a", "a">>, <<"b", "a">>} |->
        IF id = <<"a", "a">> THEN << Cr(id) >>
        ELSE << Cr(id), Cm("local", 2) >> ]

\* refs/remotes/<remote>/bugs/* after Fetch: aa extended by two comments, ab new,
\* ba rewritten (not an extension of the local log)
RemoteLog ==
    [id \in {<<"a", "a">>, <<"a", "b">>, <<"b", "a">>} |->
        IF id = <<"a", "a">> THEN << Cr(id), Cm("c1", 2), Cm("c2", 3) >>
        ELSE IF id = <<"a", "b">> THEN << Cr(id) >>
        ELSE << Cr(id), Cm("other", 2) >> ]

-----------------------------------------------------------------------------
(* Files of .git/git-bug *)

NoFile == [exists |-> FALSE, content |-> <<>>]
LockOf(content) == [exists |-> TRUE, content |-> content]

NoIndex == [state |-> "missing", data |-> EmptyMap]
BadIndex == [state |-> "corrupt", data |-> EmptyMap]

\* gob-encoding c.excerpts into the excerpt file
Encode(m) == [state |-> "ok", data |-> m]

\* process.IsRunning(pid)
IsRunning(q) == q \in Procs /\ pc[q] # "dead"


\* buildAllExcerpt taking each excerpt from the bug's first operation alone
BuildAllFirstOp(store) ==
    [id \in DOMAIN store |-> ExcerptOf(id, << store[id][1] >>)]

\* c.excerpts after buildAllExcerpt: one excerpt per bug of ReadAllLocalBugs
BuildAll(store) == [id \in DOMAIN store |-> ExcerptOf(id, store[id])]

-----------------------------------------------------------------------------
Init ==
    /\ pc = [p \in Procs |-> "idle"]
    /\ lockFile \in {NoFile, LockOf(<<StalePid>>)}
    /\ fdLinked = [p \in Procs |-> FALSE]
    /\ sawStale = [p \in Procs |-> FALSE]
    /\ rebuilt = [p \in Procs |-> FALSE]
    /\ localLog = InitLocal
    /\ indexFile \in {NoIndex, BadIndex, Encode(BuildAll(InitLocal))}
    /\ excerpts = [p \in Procs |-> EmptyMap]
    /\ bugs = [p \in Procs |-> EmptyMap]
    /\ mPc = [p \in Procs |-> "none"]
    /\ mTodo = [p \in Procs |-> {}]
    /\ mPending = [p \in Procs |-> <<>>]
    /\ mWrites = [p \in Procs |-> 0]
    /\ mDrained = [p \in Procs |-> FALSE]

\* the memory of a process that has no cache (before NewRepoCache, after exit)
ForgetCache(p) ==
    /\ excerpts' = [excerpts EXCEPT ![p] = EmptyMap]
    /\ rebuilt' = [rebuilt EXCEPT ![p] = FALSE]
    /\ bugs' = [bugs EXCEPT ![p] = EmptyMap]
    /\ mPc' = [mPc EXCEPT ![p] = "none"]
    /\ mTodo' = [mTodo EXCEPT ![p] = {}]
    /\ mPending' = [mPending EXCEPT ![p] = <<>>]
    /\ mWrites' = [mWrites EXCEPT ![p] = 0]
    /\ mDrained' = [mDrained EXCEPT ![p] = FALSE]

-----------------------------------------------------------------------------
(* NewRepoCache: lock() = repoIsAvailable, os.Create, WriteString; then     *)
(* loadExcerpts or buildAllExcerpt + writeExcerpts                          *)

\* repoIsAvailable up to its verdict on the lock file it opened: the error it
\* returns ("none" when it goes on), and whether it goes on to remove the file
lockVerdict(file) ==
    IF ~file.exists
    THEN [kind |-> "none", pid |-> "-", stale |-> FALSE]
    ELSE IF file.content = <<>>
    THEN \* strconv.Atoi("") fails
         [kind |-> "atoi", pid |-> "-", stale |-> FALSE]
    ELSE IF IsRunning(file.content[1])
    THEN [kind |-> "locked", pid |-> file.content[1], stale |-> FALSE]
    ELSE [kind |-> "none", pid |-> "-", stale |-> TRUE]

repoIsAvailable(p) ==
    /\ pc[p] = "idle"
    /\ LET v == lockVerdict(lockFile) IN
        /\ pc' = [pc EXCEPT ![p] = IF v.kind # "none" THEN "idle"
                                   ELSE IF v.stale THEN "remove" ELSE "create"]
        /\ sawStale' = [sawStale EXCEPT ![p] = v.stale]
    /\ UNCHANGED <<lockVars, localLog, indexFile, cacheVars, mergeVars>>

\* os.Remove(lockPath) of repoIsAvailable; its error is not looked at
removeStaleLock(p) ==
    /\ pc[p] = "remove"
    /\ lockFile' = NoFile
    /\ fdLinked' = [q \in Procs |-> FALSE]
    /\ pc' = [pc EXCEPT ![p] = "create"]
    /\ UNCHANGED <<sawStale, localLog, indexFile, cacheVars,
                   mergeVars>>

\* os.Create(lockPath): creates the file, or truncates the one that is there
createLock(p) ==
    /\ pc[p] = "create"
    /\ lockFile' = LockOf(<<>>)
    /\ fdLinked' = [fdLinked EXCEPT ![p] = TRUE]
    /\ pc' = [pc EXCEPT ![p] = "write"]
    /\ UNCHANGED <<sawStale, localLog, indexFile, cacheVars,
                   mergeVars>>

\* f.WriteString(pid); f.Close(): the write lands in the file p created, which
\* is the lock file only if nobody removed it since
writePid(p) ==
    /\ pc[p] = "write"
    /\ lockFile' = IF fdLinked[p] THEN LockOf(<<p>>) ELSE lockFile
    /\ fdLinked' = [fdLinked EXCEPT ![p] = FALSE]
    /\ pc' = [pc EXCEPT ![p] = "load"]
    /\ UNCHANGED <<sawStale, localLog, indexFile, cacheVars,
                   mergeVars>>

\* loadExcerpts: the decoded file, or an error when it is missing or undecodable
loadExcerpts(file) ==
    IF file.state = "ok" THEN [err |-> FALSE, excerpts |-> file.data]
                         ELSE [err |-> TRUE, excerpts |-> EmptyMap]

\* writeExcerpts: the file holds the encoding of c.excerpts
writeExcerpts(m) == Encode(m)

\* the rest of NewRepoCache after lock()
finishOpen(p) ==
    /\ pc[p] = "load"
    /\ LET l == loadExcerpts(indexFile) IN
        IF ~l.err
        THEN /\ excerpts' = [excerpts EXCEPT ![p] = l.excerpts]
             /\ rebuilt' = [rebuilt EXCEPT ![p] = FALSE]
             /\ UNCHANGED indexFile
        ELSE /\ excerpts' = [excerpts EXCEPT ![p] = BuildAll(localLog)]
             /\ rebuilt' = [rebuilt EXCEPT ![p] = TRUE]
             /\ indexFile' = writeExcerpts(BuildAll(localLog))
    /\ pc' = [pc EXCEPT ![p] = "open"]
    /\ sawStale' = [sawStale EXCEPT ![p] = FALSE]
    /\ UNCHANGED <<lockVars, localLog, bugs, mergeVars>>

\* RepoCache.Close: os.Remove(lockPath)
Close(p) ==
    /\ pc[p] = "open"
    /\ lockFile' = NoFile
    /\ fdLinked' = [q \in Procs |-> FALSE]
    /\ pc' = [pc EXCEPT ![p] = "closed"]
    /\ UNCHANGED <<sawStale, localLog, indexFile, cacheVars,
                   mergeVars>>

\* the command returns and the process' memory is gone with its goroutines
Exit(p) ==
    /\ pc[p] = "closed"
    /\ pc' = [pc EXCEPT ![p] = "idle"]
    /\ ForgetCache(p)
    /\ UNCHANGED <<lockVars, sawStale, localLog, indexFile>>

\* the process dies without running Close
Crash(p) ==
    /\ pc[p] \notin {"idle", "dead"}
    /\ pc' = [pc EXCEPT ![p] = "dead"]
    /\ ForgetCache(p)
    /\ UNCHANGED <<lockVars, sawStale, localLog, indexFile>>

-----------------------------------------------------------------------------
(* The cache's operations *)

\* the cache's owner calls into it only while no goroutine of MergeAll can touch
\* c.excerpts: none was started, it has ended, or it is blocked sending on out
Quiet(p) == mPc[p] \in {"none", "done"} \/ mPending[p] # <<>>

\* a runtime panic in the caller's goroutine: the process ends; a caller that
\* deferred Close (as runPull does) removes the lock file while unwinding, one
\* that did not leaves it
Panic(p) ==
    /\ pc' = [pc EXCEPT ![p] = "dead"]
    /\ \/ /\ lockFile' = NoFile
          /\ fdLinked' = [q \in Procs |-> FALSE]
       \/ UNCHANGED lockVars
    /\ ForgetCache(p)
    /\ UNCHANGED <<sawStale, localLog, indexFile>>

\* RepoCache.ResolveBug: what it returns and c.bugs afterwards; the memoized
\* handle, else the bug read by bug.ReadLocalBug
resolveBug(p, id) ==
    IF id \in DOMAIN bugs[p]
    THEN [kind |-> "ok", id |-> id, ids |-> {}, log |-> bugs[p][id],
          bugs |-> bugs[p]]
    ELSE IF id \in DOMAIN localLog
    THEN [kind |-> "ok", id |-> id, ids |-> {}, log |-> localLog[id],
          bugs |-> Put(bugs[p], id, localLog[id])]
    ELSE [kind |-> "notfound", id |-> <<>>, ids |-> {}, log |-> <<>>,
          bugs |-> bugs[p]]

ResolveBug(p, id) ==
    /\ pc[p] = "open"
    /\ Quiet(p)
    /\ bugs' = [bugs EXCEPT ![p] = resolveBug(p, id).bugs]
    /\ UNCHANGED <<pc, lockVars, sawStale, localLog, indexFile, excerpts,
                   rebuilt, mergeVars>>

\* the identities of c.excerpts that start with prefix
Matching(p, prefix) == {id \in DOMAIN excerpts[p] : HasPrefix(id, prefix)}

\* ResolveBugPrefix resolving matching[0] without looking at len(matching)
resolveBugPrefixFirst(p, prefix) ==
    LET matching == Matching(p, prefix) IN
    IF matching = {}
    THEN [kind |-> "panic", id |-> <<>>, ids |-> {}, log |-> <<>>,
          bugs |-> bugs[p]]
    ELSE resolveBug(p, CHOOSE id \in matching : TRUE)

\* RepoCache.ResolveBugPrefix: what it returns and c.bugs afterwards;
\* matching[0] of an empty slice is a runtime panic
resolveBugPrefix(p, prefix) ==
    LET matching == Matching(p, prefix) IN
    IF Cardinality(matching) > 1
    THEN [kind |-> "multiple", id |-> <<>>, ids |-> matching, log |-> <<>>,
          bugs |-> bugs[p]]
    ELSE IF matching = {}
    THEN [kind |-> "panic", id |-> <<>>, ids |-> {}, log |-> <<>>,
          bugs |-> bugs[p]]
    ELSE resolveBug(p, CHOOSE id \in matching : TRUE)

ResolveBugPrefix(p, prefix) ==
    /\ pc[p] = "open"
    /\ Quiet(p)
    /\ IF resolveBugPrefix(p, prefix).kind = "panic"
       THEN Panic(p)
       ELSE /\ bugs' = [bugs EXCEPT ![p] = resolveBugPrefix(p, prefix).bugs]
            /\ UNCHANGED <<pc, lockVars, sawStale, localLog, indexFile,
                           excerpts, rebuilt, mergeVars>>

\* RepoCache.ClearAllBugs
ClearAllBugs(p) ==
    /\ pc[p] = "open"
    /\ Quiet(p)
    /\ bugs[p] # EmptyMap
    /\ bugs' = [bugs EXCEPT ![p] = EmptyMap]
    /\ UNCHANGED <<pc, lockVars, sawStale, localLog, indexFile,
                   excerpts, rebuilt, mergeVars>>

\* the queries a caller may pass to QueryBugs: a title to match ("" matches
\* every excerpt), the ordering key and the direction
Queries ==
    [Title : {"", "bug aa"},
     OrderBy : {"OrderById", "OrderByCreation", "OrderByEdit"},
     OrderDirection : {"OrderAscending", "OrderDescending"}]

\* Query.Match
Match(query, excerpt) == query.Title = "" \/ excerpt.Title = query.Title

\* the order of the letters of an identity
LetterRank(c) == IF c = "a" THEN 1 ELSE IF c = "b" THEN 2 ELSE 3

\* a < b on identities, as Go compares strings
IdLess(a, b) ==
    \/ Len(a) < Len(b) /\ \A i \in 1..Len(a) : a[i] = b[i]
    \/ \E i \in 1..Len(a) :
        /\ i <= Len(b)
        /\ \A j \in 1..(i - 1) : a[j] = b[j]
        /\ LetterRank(a[i]) < LetterRank(b[i])

\* Less of the sorter QueryBugs picks (BugsById, BugsByCreationTime,
\* BugsByEditTime), the one of sort.Reverse when the direction is descending
SorterLess(query, a, b) ==
    LET less(x, y) ==
            CASE query.OrderBy = "OrderById" -> IdLess(x.Id, y.Id)
              [] query.OrderBy = "OrderByCreation" ->
                    x.CreatedAt.wall < y.CreatedAt.wall
              [] OTHER -> x.EditUnixTime < y.EditUnixTime
    IN  IF query.OrderDirection = "OrderDescending" THEN less(b, a)
                                                    ELSE less(a, b)

\* the orders in which a range over a Go map may emit the elements of S
Orders(S) ==
    {f \in [1..Cardinality(S) -> S] :
        \A i, j \in 1..Cardinality(S) : f[i] = f[j] => i = j}

\* sort.Sort on the slice filtered: some arrangement of its elements in which
\* no element is Less than one before it; the sort is not stable, so elements
\* that compare equal may come out in any order
SortSort(query, filtered) ==
    {r \in Orders({filtered[i] : i \in 1..Len(filtered)}) :
        \A i, j \in 1..Len(r) : i < j => ~SorterLess(query, r[j], r[i])}

\* RepoCache.QueryBugs with a non-nil query: each slice filtered the range over
\* c.excerpts may build, with each result the call may then return
queryBugs(p, query) ==
    UNION {
        { [filtered |-> filtered, result |-> [i \in 1..Len(r) |-> r[i].Id]] :
            r \in SortSort(query, filtered) } :
        filtered \in Orders({excerpts[p][id] : id \in
                        {i \in DOMAIN excerpts[p] : Match(query, excerpts[p][i])}}) }

\* titles a caller gives to NewBug
NewTitles == {"new bug", "other bug"}

\* bug.GetUser
GetUser == "alice"

\* operations.CreateWithFiles: a bug whose only (staged) operation is the Create
CreateWithFiles(author, title, message, files, now) ==
    << NewCreateOp(author, title, message, files, now) >>

\* bugUpdated leaving c.excerpts as it was
bugUpdatedKeep(p, id, cachedBugs) == excerpts[p]

\* RepoCache.bugUpdated followed by its writeExcerpts, as the new c.excerpts
bugUpdated(p, id, cachedBugs) ==
    Put(excerpts[p], id, ExcerptOf(id, cachedBugs[id]))

\* RepoCache.NewBugWithFiles; the identity is the hash of the first operation,
\* an identity no bug of the store or of the remote has yet
NewBugWithFiles(p, title, message, files) ==
    /\ pc[p] = "open"
    /\ Quiet(p)
    /\ \E id \in Ids \ (DOMAIN localLog \cup DOMAIN RemoteLog) :
        LET b == CreateWithFiles(GetUser, title, message, files, Now)
            cached == Put(bugs[p], id, b)
        IN  /\ localLog' = Put(localLog, id, b)
            /\ bugs' = [bugs EXCEPT ![p] = cached]
            /\ excerpts' = [excerpts EXCEPT ![p] = bugUpdated(p, id, cached)]
            /\ indexFile' = writeExcerpts(bugUpdated(p, id, cached))
    /\ UNCHANGED <<pc, lockVars, sawStale, rebuilt, mergeVars>>

\* the identities a caller comments on: the bug made by NewBug
CommentIds == {<<"b", "b">>}

\* operations.CommentWithFiles: b.Append of a new AddComment operation
CommentWithFiles(b, author, message, files, now) ==
    Append(b, NewAddCommentOp(author, message, files, now))

\* BugCache.AddComment and Commit on a handle the caller resolved: the comment
\* is appended, the log committed to the store, and bugUpdated called
AddComment(p, id, message) ==
    /\ pc[p] = "open"
    /\ Quiet(p)
    /\ id \in DOMAIN bugs[p]
    /\ Len(bugs[p][id]) < MaxOps
    /\ LET b == CommentWithFiles(bugs[p][id], GetUser, message, Files, Now)
           cached == Put(bugs[p], id, b)
       IN  /\ localLog' = Put(localLog, id, b)
           /\ bugs' = [bugs EXCEPT ![p] = cached]
           /\ excerpts' = [excerpts EXCEPT ![p] = bugUpdated(p, id, cached)]
           /\ indexFile' = writeExcerpts(bugUpdated(p, id, cached))
    /\ UNCHANGED <<pc, lockVars, sawStale, rebuilt, mergeVars>>

-----------------------------------------------------------------------------
(* MergeAll: bug.MergeAll underneath, the intercepting goroutine, the consumer *)

IsPrefix(a, b) == Len(a) <= Len(b) /\ SubSeq(b, 1, Len(a)) = a

\* bug.MergeAll on one remote bug: the result it emits
MergeOne(id, store) ==
    IF id \notin DOMAIN store
    THEN [Id |-> id, Status |-> "new", Err |-> FALSE, Bug |-> RemoteLog[id]]
    ELSE IF store[id] = RemoteLog[id]
    THEN [Id |-> id, Status |-> "nothing", Err |-> FALSE, Bug |-> store[id]]
    ELSE IF IsPrefix(store[id], RemoteLog[id])
    THEN [Id |-> id, Status |-> "updated", Err |-> FALSE, Bug |-> RemoteLog[id]]
    ELSE [Id |-> id, Status |-> "invalid", Err |-> TRUE, Bug |-> <<>>]

\* bug.MergeAll on one remote bug: the local store afterwards
MergeStore(id, store) ==
    IF MergeOne(id, store).Status \in {"new", "updated"}
    THEN Put(store, id, RemoteLog[id])
    ELSE store

\* RepoCache.MergeAll up to the start of its goroutine
MergeAll(p) ==
    /\ pc[p] = "open"
    /\ mPc[p] \in {"none", "done"}
    /\ mPc' = [mPc EXCEPT ![p] = "run"]
    /\ mTodo' = [mTodo EXCEPT ![p] = DOMAIN RemoteLog]
    /\ mPending' = [mPending EXCEPT ![p] = <<>>]
    /\ mWrites' = [mWrites EXCEPT ![p] = 0]
    /\ UNCHANGED <<pc, lockVars, sawStale, localLog, indexFile,
                   cacheVars, mDrained>>

\* the goroutine skipping the results of status nothing as well as the errored
InterceptSkipNothing(p, result) ==
    IF result.Err \/ result.Status = "nothing"
    THEN /\ UNCHANGED excerpts
         /\ mPending' = [mPending EXCEPT ![p] = <<>>]
    ELSE /\ excerpts' =
                [excerpts EXCEPT
                    ![p] = Put(@, result.Id, ExcerptOf(result.Id, result.Bug))]
         /\ mPending' = [mPending EXCEPT ![p] = << result >>]

\* the goroutine sending each result without touching c.excerpts
InterceptNoExcerpt(p, result) ==
    IF result.Err
    THEN /\ UNCHANGED excerpts
         /\ mPending' = [mPending EXCEPT ![p] = <<>>]
    ELSE /\ UNCHANGED excerpts
         /\ mPending' = [mPending EXCEPT ![p] = << result >>]

\* what the goroutine does with one result of bug.MergeAll: an errored result
\* is skipped (continue), any other is sent on out, a new or updated one after
\* its excerpt was replaced
Intercept(p, result) ==
    IF result.Err
    THEN /\ UNCHANGED excerpts
         /\ mPending' = [mPending EXCEPT ![p] = <<>>]
    ELSE /\ excerpts' =
                IF result.Status \in {"new", "updated"}
                THEN [excerpts EXCEPT
                        ![p] = Put(@, result.Id, ExcerptOf(result.Id, result.Bug))]
                ELSE excerpts
         /\ mPending' = [mPending EXCEPT ![p] = << result >>]

\* the goroutine's loop with c.writeExcerpts() inside it, once per result
MergeStepWriting(p) ==
    /\ pc[p] \in {"open", "closed"}
    /\ mPc[p] = "run"
    /\ mPending[p] = <<>>
    /\ \E id \in mTodo[p] :
        /\ mTodo' = [mTodo EXCEPT ![p] = @ \ {id}]
        /\ localLog' = MergeStore(id, localLog)
        /\ Intercept(p, MergeOne(id, localLog))
    /\ indexFile' = writeExcerpts(excerpts'[p])
    /\ mWrites' = [mWrites EXCEPT ![p] = @ + 1]
    /\ UNCHANGED <<pc, lockVars, sawStale, rebuilt, bugs, mPc, mDrained>>

\* one turn of the goroutine's loop: the next remote bug, in the remote's
\* enumeration order (any), merged and intercepted
MergeStep(p) ==
    /\ pc[p] \in {"open", "closed"}
    /\ mPc[p] = "run"
    /\ mPending[p] = <<>>
    /\ \E id \in mTodo[p] :
        /\ mTodo' = [mTodo EXCEPT ![p] = @ \ {id}]
        /\ localLog' = MergeStore(id, localLog)
        /\ Intercept(p, MergeOne(id, localLog))
    /\ UNCHANGED <<pc, lockVars, sawStale, rebuilt, indexFile, bugs, mPc,
                   mWrites, mDrained>>

\* the consumer receives the result the goroutine is sending
Receive(p) ==
    /\ pc[p] = "open"
    /\ mPending[p] # <<>>
    /\ mPending' = [mPending EXCEPT ![p] = <<>>]
    /\ UNCHANGED <<pc, lockVars, sawStale, localLog, indexFile,
                   cacheVars, mPc, mTodo, mWrites, mDrained>>

\* after the loop: c.writeExcerpts()
MergeWrite(p) ==
    /\ pc[p] \in {"open", "closed"}
    /\ mPc[p] = "run"
    /\ mPending[p] = <<>>
    /\ mTodo[p] = {}
    /\ indexFile' = writeExcerpts(excerpts[p])
    /\ mWrites' = [mWrites EXCEPT ![p] = @ + 1]
    /\ mPc' = [mPc EXCEPT ![p] = "written"]
    /\ UNCHANGED <<pc, lockVars, sawStale, localLog, cacheVars,
                   mTodo, mPending, mDrained>>

\* defer close(out): the consumer's range loop ends
CloseOut(p) ==
    /\ pc[p] \in {"open", "closed"}
    /\ mPc[p] = "written"
    /\ mPc' = [mPc EXCEPT ![p] = "done"]
    /\ mDrained' = [mDrained EXCEPT ![p] = TRUE]
    /\ UNCHANGED <<pc, lockVars, sawStale, localLog, indexFile,
                   cacheVars, mTodo, mPending, mWrites>>

Next ==
    \/ \E p \in Procs :
        \/ repoIsAvailable(p)
        \/ removeStaleLock(p)
        \/ createLock(p)
        \/ writePid(p)
        \/ finishOpen(p)
        \/ Close(p)
        \/ Exit(p)
        \/ Crash(p)
    \/ \E p \in Workers :
        \/ \E id \in ResolveIds : ResolveBug(p, id)
        \/ \E prefix \in Prefixes : ResolveBugPrefix(p, prefix)
        \/ ClearAllBugs(p)
        \/ \E title \in NewTitles : NewBugWithFiles(p, title, "first", Files)
        \/ MergeAll(p)
        \/ MergeStep(p)
        \/ Receive(p)
        \/ MergeWrite(p)
        \/ CloseOut(p)

Spec == Init /\ [][Next]_vars

\* the repository used by one process at a time, as the cache's single logical
\* owner: it opens the cache, creates bugs, comments on them, merges the
\* remote and closes
NextOwner ==
    \E p \in Workers :
        \/ repoIsAvailable(p)
        \/ removeStaleLock(p)
        \/ createLock(p)
        \/ writePid(p)
        \/ finishOpen(p)
        \/ Close(p)
        \/ Exit(p)
        \/ \E id \in ResolveIds : ResolveBug(p, id)
        \/ ClearAllBugs(p)
        \/ \E title \in NewTitles : NewBugWithFiles(p, title, "first", Files)
        \/ \E id \in CommentIds : AddComment(p, id, "more")
        \/ MergeAll(p)
        \/ MergeStep(p)
        \/ Receive(p)
        \/ MergeWrite(p)
        \/ CloseOut(p)

SpecOwner == Init /\ [][NextOwner]_vars

-----------------------------------------------------------------------------
(* The same owner on a file system and a store whose calls may fail *)

\* the excerpt file after a writeExcerpts that returned an error: as it was
\* (Encode or os.Create failed), or truncated by os.Create and not written in
\* full (Write or Close failed)
writeExcerptsFails(file) == {file, BadIndex}

\* lock() returning the error of os.Create: no file was created
createLockFails(p) ==
    /\ pc[p] = "create"
    /\ pc' = [pc EXCEPT ![p] = "idle"]
    /\ sawStale' = [sawStale EXCEPT ![p] = FALSE]
    /\ UNCHANGED <<lockVars, localLog, indexFile, cacheVars, mergeVars>>

\* lock() returning the error of f.WriteString (the file stays as os.Create
\* left it) or of f.Close (the pid may have been written)
writePidFails(p) ==
    /\ pc[p] = "write"
    /\ \/ UNCHANGED lockFile
       \/ lockFile' = IF fdLinked[p] THEN LockOf(<<p>>) ELSE lockFile
    /\ fdLinked' = [fdLinked EXCEPT ![p] = FALSE]
    /\ pc' = [pc EXCEPT ![p] = "idle"]
    /\ sawStale' = [sawStale EXCEPT ![p] = FALSE]
    /\ UNCHANGED <<localLog, indexFile, cacheVars, mergeVars>>

\* NewRepoCache returning the error of writeExcerpts after buildAllExcerpt; the
\* caller, as runPull, returns on the error before it has deferred Close
finishOpenFails(p) ==
    /\ pc[p] = "load"
    /\ loadExcerpts(indexFile).err
    /\ indexFile' \in writeExcerptsFails(indexFile)
    /\ pc' = [pc EXCEPT ![p] = "idle"]
    /\ sawStale' = [sawStale EXCEPT ![p] = FALSE]
    /\ UNCHANGED <<lockVars, localLog, cacheVars, mergeVars>>

\* the calls of NewBugWithFiles that may return an error
FailPoints == {"GetUser", "Commit", "writeExcerpts"}

\* RepoCache.NewBugWithFiles returning the error of the call at
NewBugWithFilesFails(p, title, message, files, at) ==
    /\ pc[p] = "open"
    /\ Quiet(p)
    /\ IF at \in {"GetUser", "Commit"}
       THEN UNCHANGED <<localLog, bugs, excerpts, indexFile>>
       ELSE \E id \in Ids \ (DOMAIN localLog \cup DOMAIN RemoteLog) :
            LET b == CreateWithFiles(GetUser, title, message, files, Now)
                cached == Put(bugs[p], id, b)
            IN  /\ localLog' = Put(localLog, id, b)
                /\ bugs' = [bugs EXCEPT ![p] = cached]
                /\ excerpts' = [excerpts EXCEPT ![p] = bugUpdated(p, id, cached)]
                /\ indexFile' \in writeExcerptsFails(indexFile)
    /\ UNCHANGED <<pc, lockVars, sawStale, rebuilt, mergeVars>>

NextFaults ==
    \/ NextOwner
    \/ \E p \in Workers :
        \/ createLockFails(p)
        \/ writePidFails(p)
        \/ finishOpenFails(p)
        \/ \E title \in NewTitles : \E at \in FailPoints :
                NewBugWithFilesFails(p, title, "first", Files, at)

SpecFaults == Init /\ [][NextFaults]_vars

-----------------------------------------------------------------------------
(* Claims *)

\* C1: no two processes hold an open RepoCache on the repository at once,
\* whatever the interleaving of their NewRepoCache steps.
LockExclusive ==
    \A a, b \in Procs : (pc[a] = "open" /\ pc[b] = "open") => a = b

\* C2: while process a holds an open cache and runs, a NewRepoCache that
\* another process b starts fails with the lock-held error naming a, and the
\* lock file is left as it was; the Close of a leaves the repository free for
\* the next NewRepoCache.
SecondOpenFails ==
    [][\A a, b \in Procs :
        /\ (a # b /\ pc[a] = "open" /\ repoIsAvailable(b)) =>
                /\ lockVerdict(lockFile).kind = "locked"
                /\ lockVerdict(lockFile).pid = a
                /\ pc'[b] = "idle"
                /\ lockFile' = lockFile
        /\ Close(a) => lockVerdict(lockFile').kind = "none"]_vars

\* C3: a NewRepoCache that found the lock file of a process that is gone ends
\* open, with the lock file recording the pid of the caller.
StaleLockRecovered ==
    [][\A p \in Procs :
        (finishOpen(p) /\ sawStale[p]) =>
            (pc'[p] = "open" /\ lockFile' = LockOf(<<p>>))]_vars

\* C4: every result the underlying merge emits, one with an error included, is
\* sent to the consumer of RepoCache.MergeAll.
AllResultsDelivered ==
    [][\A p \in Procs : \A id \in mTodo[p] :
        (MergeStep(p) /\ mTodo'[p] = mTodo[p] \ {id}) =>
            mPending'[p] = << MergeOne(id, localLog) >>]_vars

\* C5: ResolveBugPrefix with a prefix no identity of c.excerpts starts with
\* returns a not-found error and leaves c.excerpts and c.bugs as they were.
PrefixNotFound ==
    [][\A p \in Procs : \A prefix \in Prefixes :
        (ResolveBugPrefix(p, prefix) /\ Matching(p, prefix) = {}) =>
            /\ resolveBugPrefix(p, prefix).kind = "notfound"
            /\ pc'[p] = "open"
            /\ excerpts'[p] = excerpts[p]
            /\ bugs'[p] = bugs[p]]_vars

\* C6: ResolveBugPrefix with a prefix that two or more identities of
\* c.excerpts start with returns the error listing exactly those identities,
\* returns no bug and leaves c.bugs as it was.
PrefixAmbiguous ==
    \A p \in Procs : \A prefix \in Prefixes :
        LET starts == {id \in DOMAIN excerpts[p] :
                        /\ Len(id) >= Len(prefix)
                        /\ SubSeq(id, 1, Len(prefix)) = prefix}
            r == resolveBugPrefix(p, prefix)
        IN  (pc[p] = "open" /\ Cardinality(starts) >= 2) =>
                /\ r.kind = "multiple"
                /\ r.ids = starts
                /\ r.id = <<>> /\ r.log = <<>>
                /\ r.bugs = bugs[p]

\* C6 happens: an open cache whose index holds aa and ab, with a bug loaded,
\* where the prefix "a" is ambiguous
PrefixAmbiguousReached ==
    \E p \in Procs :
        /\ pc[p] = "open" /\ Quiet(p)
        /\ {<<"a", "a">>, <<"a", "b">>} \subseteq DOMAIN excerpts[p]
        /\ bugs[p] # EmptyMap
        /\ resolveBugPrefix(p, <<"a">>).ids = {<<"a", "a">>, <<"a", "b">>}

\* C7: the goroutine of MergeAll writes the index once: after every result it
\* sent was received and the remote is exhausted, before it closes out; when
\* out is closed the persisted index is the encoding of c.excerpts.
IndexWrittenOnceAtEnd ==
    [][\A p \in Procs :
        /\ mWrites'[p] > mWrites[p] =>
                /\ mPc[p] = "run" /\ mTodo[p] = {} /\ mPending[p] = <<>>
                /\ mPc'[p] # "done"
                /\ indexFile' = Encode(excerpts'[p])
        /\ (mPc'[p] = "done" /\ mPc[p] # "done") =>
                /\ mWrites'[p] = 1
                /\ indexFile' = Encode(excerpts'[p])
        /\ (mPc[p] = "done" /\ mPc'[p] = "done") => mWrites'[p] = mWrites[p]]_vars

\* C7 happens: a merge was drained to the close of out, and imported bug ab
MergeDrained ==
    \E p \in Procs :
        /\ pc[p] = "open" /\ mPc[p] = "done" /\ mWrites[p] = 1
        /\ <<"a", "b">> \in DOMAIN excerpts[p]
        /\ indexFile = Encode(excerpts[p])

\* C8: every identity of c.bugs of an open cache is an identity of c.excerpts,
\* under which the excerpt of that identity is stored.
LoadedHaveExcerpt ==
    \A p \in Procs : pc[p] = "open" =>
        \A id \in DOMAIN bugs[p] :
            id \in DOMAIN excerpts[p] /\ excerpts[p][id].Id = id

\* C9: NewRepoCache of a process that uses the cache, called when every other
\* process has ended its session, ends with
\* c.excerpts holding, for each bug of the local store and nothing else, the
\* excerpt of its compiled log.
OpenIndexMatchesStore ==
    [][\A p \in Workers :
        (finishOpen(p) /\ \A q \in Procs \ {p} : pc[q] = "idle") =>
        /\ DOMAIN excerpts'[p] = DOMAIN localLog'
        /\ \A id \in DOMAIN localLog' :
                excerpts'[p][id] = ExcerptOf(id, localLog'[id])]_vars

\* C10: a NewRepoCache that finds the excerpt file missing or undecodable ends
\* open with c.excerpts rebuilt from every log of the local store, and the file
\* then holds that rebuilt map.
MissingIndexRebuilt ==
    [][\A p \in Procs : (finishOpen(p) /\ indexFile.state # "ok") =>
        /\ pc'[p] = "open"
        /\ DOMAIN excerpts'[p] = DOMAIN localLog
        /\ \A id \in DOMAIN localLog :
                excerpts'[p][id] =
                    NewBugExcerpt(id, localLog[id], Compile(localLog[id]))
        /\ indexFile' = Encode(excerpts'[p])]_vars

\* C10 happens: a cache is open that was rebuilt, and the file holds its map
RebuiltReached ==
    \E p \in Procs :
        /\ pc[p] = "open" /\ rebuilt[p]
        /\ excerpts[p] # EmptyMap
        /\ indexFile = Encode(excerpts[p])

\* C11: a NewBug / NewBugWithFiles that returns without error leaves one new
\* bug whose durable log is the log of the returned handle (nothing staged),
\* the handle memoized in c.bugs under the bug's identity, c.excerpts holding
\* under that identity the excerpt of the handle's snapshot, and the excerpt
\* file holding the encoding of c.excerpts.
NewBugPersisted ==
    [][\A p \in Procs : \A title \in NewTitles :
        NewBugWithFiles(p, title, "first", Files) =>
            \E id \in Ids \ DOMAIN localLog :
                /\ DOMAIN localLog' = DOMAIN localLog \cup {id}
                /\ localLog'[id] = << NewCreateOp(GetUser, title, "first", Files, Now) >>
                /\ id \in DOMAIN bugs'[p]
                /\ bugs'[p][id] = localLog'[id]
                /\ id \in DOMAIN excerpts'[p]
                /\ excerpts'[p][id] =
                        NewBugExcerpt(id, bugs'[p][id], Compile(bugs'[p][id]))
                /\ indexFile' = Encode(excerpts'[p])]_vars

\* C11 happens: bug bb, which only NewBug can make, is in the store, memoized
\* and indexed in an open cache
NewBugReached ==
    \E p \in Procs :
        /\ pc[p] = "open"
        /\ <<"b", "b">> \in DOMAIN localLog
        /\ <<"b", "b">> \in DOMAIN bugs[p]
        /\ <<"b", "b">> \in DOMAIN excerpts[p]
        /\ excerpts[p][<<"b", "b">>].Title \in NewTitles
        /\ indexFile = Encode(excerpts[p])

\* C12: when the remote log of a bug is the local log followed by k >= 1
\* AddComment operations, the merge of that bug sends a result of status
\* updated, and the snapshot compiled from the local log afterwards has the
\* comments it had before, followed by the k new comments in the remote's order.
MergeExtends ==
    [][\A p \in Procs : \A id \in mTodo[p] :
        LET old == IF id \in DOMAIN localLog THEN localLog[id] ELSE <<>>
            rem == RemoteLog[id]
            added == SubSeq(rem, Len(old) + 1, Len(rem))
        IN  ( /\ MergeStep(p) /\ mTodo'[p] = mTodo[p] \ {id}
              /\ old # <<>> /\ Len(rem) > Len(old)
              /\ SubSeq(rem, 1, Len(old)) = old
              /\ \A i \in 1..Len(added) : added[i].kind = "AddComment" ) =>
            /\ Len(mPending'[p]) = 1
            /\ mPending'[p][1].Id = id
            /\ mPending'[p][1].Status = "updated"
            /\ Compile(localLog'[id]).Comments =
                    Compile(old).Comments \o
                    [i \in 1..Len(added) |->
                        [Message |-> added[i].Message, Author |-> added[i].Author,
                         Files |-> added[i].Files, UnixTime |-> added[i].UnixTime]]]_vars

\* C12 happens: the goroutine is sending the updated result of bug aa, whose
\* local log gained the two comments of the remote
MergeExtendsReached ==
    \E p \in Procs :
        /\ mPending[p] # <<>>
        /\ mPending[p][1].Id = <<"a", "a">>
        /\ mPending[p][1].Status = "updated"
        /\ Len(InitLocal[<<"a", "a">>]) + 2 = Len(localLog[<<"a", "a">>])
        /\ Len(Compile(localLog[<<"a", "a">>]).Comments) = 3

QueryOrderedStable ==
    \A p \in Procs : pc[p] = "open" =>
        \A query \in Queries : \A o \in queryBugs(p, query) :
            LET n == Len(o.result)
                at(id) == CHOOSE i \in 1..Len(o.filtered) : o.filtered[i].Id = id
            IN  /\ {o.result[i] : i \in 1..n} =
                        {id \in DOMAIN excerpts[p] : Match(query, excerpts[p][id])}
                /\ \A i, j \in 1..n : o.result[i] = o.result[j] => i = j
                /\ \A i, j \in 1..n : i < j =>
                        LET a == excerpts[p][o.result[i]]
                            b == excerpts[p][o.result[j]]
                        IN  /\ ~SorterLess(query, b, a)
                            /\ ~SorterLess(query, a, b) =>
                                    at(o.result[i]) < at(o.result[j])

\* C15: the log of a bug made by CreateWithFiles and committed by
\* NewBugWithFiles starts with a Create operation and holds no other, and its
\* compiled snapshot has the title, the author and the creation time given to
\* the factory, when the bug is made and after each comment appended to it.
CreateInvariant ==
    [][\A id \in Ids \ (DOMAIN InitLocal \cup DOMAIN RemoteLog) :
        id \in DOMAIN localLog' =>
            LET log == localLog'[id]
                snap == Compile(log)
            IN  /\ log[1].kind = "Create"
                /\ \A i \in 2..Len(log) : log[i].kind # "Create"
                /\ snap.Author = GetUser
                /\ snap.CreatedAt = UnixToTime(Now)
                /\ \A p \in Procs : \A title \in NewTitles :
                        (id \notin DOMAIN localLog
                            /\ NewBugWithFiles(p, title, "first", Files)) =>
                        snap.Title = title
                /\ id \in DOMAIN localLog =>
                        /\ IsPrefix(localLog[id], log)
                        /\ snap.Title = Compile(localLog[id]).Title]_vars

\* C15 happens: the bug made by NewBug has had comments appended up to MaxOps
\* operations
CreateThenComments ==
    /\ <<"b", "b">> \in DOMAIN localLog
    /\ Len(localLog[<<"b", "b">>]) = MaxOps
    /\ localLog[<<"b", "b">>][MaxOps].kind = "AddComment"
    /\ Compile(localLog[<<"b", "b">>]).Title \in NewTitles
    /\ Len(Compile(localLog[<<"b", "b">>]).Comments) = MaxOps

\* C16: a turn of the goroutine whose result is new or updated replaces the
\* excerpt of that identity, and no other, by the excerpt of the merged bug's
\* compiled snapshot before it sends the result, so that the excerpt is in
\* place when the consumer receives the result; a turn with any other result
\* leaves c.excerpts as it was.
ExcerptBeforeDelivery ==
    [][\A p \in Procs :
        /\ \A id \in mTodo[p] :
            (MergeStep(p) /\ mTodo'[p] = mTodo[p] \ {id}) =>
                IF MergeOne(id, localLog).Status \in {"new", "updated"}
                THEN /\ mPending'[p] = << MergeOne(id, localLog) >>
                     /\ DOMAIN excerpts'[p] = DOMAIN excerpts[p] \cup {id}
                     /\ excerpts'[p][id] =
                            NewBugExcerpt(id, localLog'[id], Compile(localLog'[id]))
                     /\ \A i \in DOMAIN excerpts[p] \ {id} :
                            excerpts'[p][i] = excerpts[p][i]
                ELSE excerpts' = excerpts
        /\ (Receive(p) /\ mPending[p][1].Status \in {"new", "updated"}) =>
                LET r == mPending[p][1]
                IN  /\ r.Id \in DOMAIN excerpts[p]
                    /\ excerpts[p][r.Id] =
                            NewBugExcerpt(r.Id, r.Bug, Compile(r.Bug))
                    /\ excerpts'[p] = excerpts[p]]_vars

\* C16 happens: the goroutine is sending the new result of bug ab to an open
\* cache whose c.excerpts holds the excerpt of ab, and has merged aa before
NewResultPending ==
    \E p \in Procs :
        /\ pc[p] = "open"
        /\ mPending[p] # <<>>
        /\ mPending[p][1].Status = "new"
        /\ mPending[p][1].Id = <<"a", "b">>
        /\ <<"a", "b">> \in DOMAIN excerpts[p]
        /\ <<"a", "a">> \notin mTodo[p]

\* C17: once the goroutine reports a new or updated result for an identity,
\* ResolveBug on that identity returns a handle whose log is the merged local
\* log, a handle memoized before the merge included, and bugUpdated on that
\* identity then stores the excerpt of the merged log.
ResolveAfterMerge ==
    \A p \in Procs :
        (pc[p] = "open" /\ mPending[p] # <<>>
            /\ mPending[p][1].Status \in {"new", "updated"}) =>
            LET id == mPending[p][1].Id
                r == resolveBug(p, id)
            IN  /\ r.kind = "ok"
                /\ r.log = localLog[id]
                /\ bugUpdated(p, id, r.bugs)[id] = ExcerptOf(id, localLog[id])

\* C18: a NewBug / NewBugWithFiles that returns an error (of GetUser, of
\* Commit or of the index write) leaves c.bugs, c.excerpts and the excerpt
\* file as they were before the call, and no bug in the store that the excerpt
\* file does not list.
FailedNewBugLeavesNoTrace ==
    [][\A p \in Procs : \A title \in NewTitles : \A at \in FailPoints :
        NewBugWithFilesFails(p, title, "first", Files, at) =>
            /\ bugs'[p] = bugs[p]
            /\ excerpts'[p] = excerpts[p]
            /\ indexFile' = indexFile
            /\ \A id \in DOMAIN localLog' \ DOMAIN localLog :
                    id \in DOMAIN indexFile'.data]_vars

\* C19: a NewRepoCache that returns an error (the lock is held, the lock file
\* could not be created or written, or the rebuilt index could not be written)
\* leaves no lock file that records the pid of the caller.
FailedOpenLeavesNoLock ==
    [][\A p \in Procs :
        ( \/ repoIsAvailable(p) /\ lockVerdict(lockFile).kind # "none"
          \/ createLockFails(p)
          \/ writePidFails(p)
          \/ finishOpenFails(p) ) =>
            lockFile' # LockOf(<<p>>)]_vars

\* C20: every write of the excerpt file is made by a process that holds the
\* lock (its NewRepoCache took it and its Close has not run); the final
\* writeExcerpts of the goroutine of MergeAll in particular never runs after
\* the consumer stopped receiving and called Close.
IndexWrittenUnderLock ==
    [][\A p \in Procs :
        ( \/ finishOpen(p) /\ rebuilt'[p]
          \/ \E title \in NewTitles : NewBugWithFiles(p, title, "first", Files)
          \/ \E id \in CommentIds : AddComment(p, id, "more")
          \/ MergeWrite(p) ) =>
            /\ pc[p] \in {"load", "open"}
            /\ lockFile = LockOf(<<p>>)]_vars

====
